---- MODULE Spec2Model ----
(***************************************************************************)
(* Model of simulation/SmartMeterBlock.m: the smart-meter telemetry block  *)
(* (setupImpl / stepImpl / resetImpl / releaseImpl) with its send gate,    *)
(* its connection flag and the payload it hands to the transport.          *)
(*                                                                         *)
(* Time is in whole seconds since the epoch; datetime('now') is an input   *)
(* of each step, read from a non-decreasing wall clock.  The outcome of a  *)
(* transport constructor, of a transport write and of the encoding and     *)
(* signing library calls is chosen by the environment.                     *)
(***************************************************************************)
EXTENDS Integers, Sequences, FiniteSets, TLC

\* ---------------------------------------------------------------- bounds
MaxClock == 6
MaxSamples == 4
MaxLen == 2
\* direct applications of the helper functions
MaxWindow == 4
MaxPhasor == 2
MaxGain == 2
MaxKeyLen == 2

\* ------------------------------------------------------ program constants
Epoch == 0
MeterId == "METER_001"
NodeType == "consumer"
SamplingRate == 4800
FundamentalFreq == 50
\* a double: a number, NaN, or the named result of the analysis of a window
Num(n) == [t |-> "num", v |-> <<n>>]
NaN == [t |-> "nan", v |-> <<>>]
Term(name, args) == [t |-> name, v |-> args]
\* HmacSHA256 works on blocks of 64 bytes
BlockLen == 64

\* the configurations the block is built with: TransportProtocol,
\* SendInterval, CommunicationFormat, UseWaveformInput, HMACKey (a char
\* array, written as its character codes: <<107, 49>> is 'k1')
Configs ==
    { <<"tcp", 5, "influx", TRUE, <<>>>>,
      <<"tcp", 5, "dlms", FALSE, <<>>>>,
      <<"udp", 1, "dlms", TRUE, <<>>>>,
      <<"udp", 1, "influx", FALSE, <<107, 49>>>>,
      <<"serial", 5, "influx", TRUE, <<>>>>,
      <<"serial", 1, "dlms", FALSE, <<107, 49>>>> }
\* what the external calls of a send attempt do: complete, raise in the
\* signing call (the JVM's Mac), raise in the transport write
Outcomes == {"ok", "encode", "transport"}

VARIABLES
    \* properties (Nontunable)
    TransportProtocol, SendInterval, CommunicationFormat, UseWaveformInput,
    HMACKey,
    \* properties (Access = private)
    TcpClient, LastSendTime, SampleCount, IsConnected,
    \* environment: wall clock at its last reading, bytes last written
    clock, wire,
    \* outputs of the last step
    y1, y2,
    \* observation of the last call
    lastOp, inputs, elapsed, attempted, wrote, raised, propagated,
    \* seconds since the previous tick that returned 1, -1 when there is none
    sinceSent,
    \* history since the last setup / reset
    failedSince, released, log,
    \* time of the latest tick that returned 1, -1 when there is none
    sentAt,
    \* the latest direct application of one of the block's helper functions
    call

config == <<TransportProtocol, SendInterval, CommunicationFormat,
            UseWaveformInput, HMACKey>>
private == <<TcpClient, LastSendTime, SampleCount, IsConnected>>
outputs == <<y1, y2>>
observed == <<inputs, elapsed, attempted, wrote, raised, propagated, sinceSent>>
vars == <<config, private, clock, wire, outputs, lastOp, observed,
          failedSince, released, log, sentAt, call>>

NoMsg == [kind |-> "none"]
NoCall == [op |-> "none"]
Dirty == [ok |-> FALSE, ticks |-> <<>>]

\* ------------------------------------------------------------ step inputs
SampleVals == {1}
Windows == UNION {[1..n -> SampleVals] : n \in 0..MaxLen}
FullScalars == <<Num(100), Num(20), Num(230), Num(5), Num(50), "peak", Num(7), Num(3), Num(9)>>
WaveArgs == {<<v, i>> : v \in Windows, i \in Windows}
ScalarArgs == {SubSeq(FullScalars, 1, n) : n \in {8, 9}}
\* what the host passes: the inputs of the configured mode, or none at all
Inputs(waveform) == IF waveform THEN WaveArgs \cup {<<>>} ELSE ScalarArgs
\* seconds between two readings of the wall clock
Deltas == {0, 1, 4}
Readings(last) == {last + d : d \in Deltas} \cap (0..MaxClock)

numel(x) == Len(x)
isempty(x) == Len(x) = 0

\* int64(posixtime(t) * 1e9): a count of nanoseconds since the epoch, kept
\* as the number of 10^9 ns units it holds
ToNs(t) == [unit |-> "ns", e9 |-> t - Epoch]

\* y2 = int64(posixtime(nowUtc) * 1e9)
OutputTimestampOfLastSend(nowUtc, last) == ToNs(last)
OutputTimestamp(nowUtc, last) == ToNs(nowUtc)

\* seconds(nowUtc - obj.LastSendTime)
Elapsed(nowUtc, last) == nowUtc - last

\* ---------------------------------------------------------------- stepImpl
\* the validation of the inputs: "none" or the error raised
ValidateInputs(waveform, varargin) ==
    IF waveform
    THEN IF Len(varargin) < 2 THEN "input"
         ELSE IF isempty(varargin[1]) \/ isempty(varargin[2])
                 \/ numel(varargin[1]) # numel(varargin[2])
              THEN "input" ELSE "none"
    ELSE IF Len(varargin) < 9 THEN "input" ELSE "none"

\* kFund = round(FundamentalFreq * N / fs) + 1, wrapped into 1..N
Round(num, den) == (2 * num + den) \div (2 * den)
kFundRawOf(f, fs, N) == Round(f * N, fs) + 1
kFundOfNoWrap(f, fs, N) == kFundRawOf(f, fs, N)
kFundOf(f, fs, N) ==
    IF kFundRawOf(f, fs, N) > N THEN ((kFundRawOf(f, fs, N) - 1) % N) + 1
    ELSE kFundRawOf(f, fs, N)
kFundRaw(N) == kFundRawOf(FundamentalFreq, SamplingRate, N)
kFund(N) == kFundOf(FundamentalFreq, SamplingRate, N)

\* complex numbers as <<re, im>>; exact fractions as [num, den]
Re(z) == z[1]
Im(z) == z[2]
conj(z) == <<z[1], -z[2]>>
Times(z, w) == <<z[1] * w[1] - z[2] * w[2], z[1] * w[2] + z[2] * w[1]>>
Abs2(z) == z[1] * z[1] + z[2] * z[2]
Frac(n, d) == [num |-> n, den |-> d]

\* the fundamental quantities from the phasors V1, I1 of an N-sample window.
\* abs() and sqrt(2) are kept exact by carrying squares: VrmsSq is
\* Vrms_fund^2 = |V1|^2 / (2 N^2), SSq is S^2 = (Vrms_fund * Irms_fund)^2.
FundamentalPowers(V1, I1, N) ==
    [VrmsSq |-> Frac(Abs2(V1), 2 * N * N),
     IrmsSq |-> Frac(Abs2(I1), 2 * N * N),
     SSq |-> Frac(Abs2(V1) * Abs2(I1), 4 * N * N * N * N),
     P_fund |-> Frac(Re(Times(V1, conj(I1))), N * N),
     Q_fund |-> Frac(Im(Times(V1, conj(I1))), N * N)]

\* the quantities of the tick: analysed from the window or taken as given
Measure(waveform, varargin) ==
    IF waveform
    THEN LET v == varargin[1]
             i == varargin[2]
             N == numel(v)
         IN [pActive |-> Term("P_inst", <<v, i>>),
             pReactive |-> Term("Q_fund", <<v, i, <<kFund(N)>>>>),
             voltage |-> Term("Vrms", <<v>>), current |-> Term("Irms", <<i>>),
             frequency |-> Num(FundamentalFreq),
             timeOfUse |-> "", energyKwh |-> NaN, maxDemandKw |-> NaN,
             costValue |-> NaN,
             meta |-> [dims |-> <<1, 1>>,
                       fields |-> {"Vrms_fund", "Irms_fund", "P_fund", "Q_fund", "S", "N"},
                       N |-> N, kFund |-> kFund(N)]]
    ELSE [pActive |-> varargin[1], pReactive |-> varargin[2],
          voltage |-> varargin[3], current |-> varargin[4],
          frequency |-> varargin[5], timeOfUse |-> varargin[6],
          energyKwh |-> varargin[7], maxDemandKw |-> varargin[8],
          costValue |-> varargin[9],
          \* meta = struct(): a 1-by-1 struct array with no fields
          meta |-> [dims |-> <<1, 1>>, fields |-> {}]]

\* if elapsed >= obj.SendInterval || obj.SampleCount == 1
GateNoFirst(el, interval, count) == el >= interval
GateStrict(el, interval, count) == el > interval \/ count = 1
GateEarly(el, interval, count) == el + 1 >= interval \/ count = 1
Gate(el, interval, count) == el >= interval \/ count = 1

\* a send attempt (build, sign, transmit) is made: the inputs passed the
\* validation, the gate is open and the block is connected
AttemptUnchecked(invalid, gate, connected) == invalid = "none" /\ gate
Attempt(invalid, gate, connected) == invalid = "none" /\ gate /\ connected

\* sprintf('%.6f', x): six decimals of a number, the text NaN of a NaN
sprintf6Zero(x) == [fmt |-> "%.6f", of |-> IF x.t = "nan" THEN Num(0) ELSE x]
sprintf6(x) == IF x.t = "nan" THEN [fmt |-> "NaN", of |-> x]
               ELSE [fmt |-> "%.6f", of |-> x]
\* jsonencode of a double: a JSON number, null for a NaN
jsonNumber(x) == IF x.t = "nan" THEN [fmt |-> "null", of |-> x]
                 ELSE [fmt |-> "number", of |-> x]

buildLineProtocolInflux(m, timestamp_ns) ==
    [kind |-> "influx",
     lines |-> << <<"realtime_readings", sprintf6(m.pActive),
                    sprintf6(m.pReactive), sprintf6(m.voltage),
                    sprintf6(m.current), sprintf6(m.frequency), timestamp_ns>>,
                  <<"aggregated_usage", sprintf6(m.energyKwh),
                    sprintf6(m.maxDemandKw), timestamp_ns>>,
                  <<"meter_cost", sprintf6(m.costValue), timestamp_ns>> >>]

\* field names as the characters they are written with
Letters == {"a", "b", "c", "d", "e", "f", "g", "h", "i", "j", "k", "l", "m",
            "n", "o", "p", "q", "r", "s", "t", "u", "v", "w", "x", "y", "z"}
Digits == {"0", "1", "2", "3", "4", "5", "6", "7", "8", "9"}
\* the names struct() accepts: a letter, then letters, digits, underscores
isvarname(w) ==
    /\ Len(w) > 0
    /\ w[1] \in Letters
    /\ \A k \in 1..Len(w) : w[k] \in Letters \cup Digits \cup {"_"}

\* the OBIS-like keys of dlmsObj.measurements, in the order of the code:
\* 1-0:1.8.0, 1-0:2.8.0, 1-0:16.7.0, 1-0:3.7.0, 1-0:32.7.0, 1-0:31.7.0,
\* 1-0:14.7.0
ObisKeys ==
    << <<"1", "-", "0", ":", "1", ".", "8", ".", "0">>,
       <<"1", "-", "0", ":", "2", ".", "8", ".", "0">>,
       <<"1", "-", "0", ":", "1", "6", ".", "7", ".", "0">>,
       <<"1", "-", "0", ":", "3", ".", "7", ".", "0">>,
       <<"1", "-", "0", ":", "3", "2", ".", "7", ".", "0">>,
       <<"1", "-", "0", ":", "3", "1", ".", "7", ".", "0">>,
       <<"1", "-", "0", ":", "1", "4", ".", "7", ".", "0">> >>
\* max_demand_kw, cost, time_of_use
AggregateKeys ==
    << <<"m", "a", "x", "_", "d", "e", "m", "a", "n", "d", "_", "k", "w">>,
       <<"c", "o", "s", "t">>,
       <<"t", "i", "m", "e", "_", "o", "f", "_", "u", "s", "e">> >>

\* struct(name, value, ...) raises on a name that is not a valid identifier
structRaises(names) == \E k \in 1..Len(names) : ~isvarname(names[k])

\* isempty of a struct array: no elements (not: no fields)
isemptyStructNoFields(st) == st.fields = {}
isemptyStruct(st) == st.dims[1] * st.dims[2] = 0

NoMeta == [dims |-> <<0, 0>>, fields |-> {}]

\* TRUE when building the DLMS object raises: the struct() calls of
\* dlmsObj.measurements and dlmsObj.aggregates
buildDLMSPayloadRaises == structRaises(ObisKeys) \/ structRaises(AggregateKeys)

buildDLMSPayload(m, timestamp_ns) ==
    [kind |-> "dlms", meter_id |-> MeterId, node_type |-> NodeType,
     timestamp_ns |-> timestamp_ns,
     measurements |-> [energy |-> jsonNumber(m.energyKwh),
                       reactive_energy |-> jsonNumber(NaN),
                       power |-> jsonNumber(m.pActive),
                       reactive_power |-> jsonNumber(m.pReactive),
                       voltage |-> jsonNumber(m.voltage),
                       current |-> jsonNumber(m.current),
                       frequency |-> jsonNumber(m.frequency)],
     aggregates |-> [max_demand_kw |-> jsonNumber(m.maxDemandKw),
                     cost |-> jsonNumber(m.costValue),
                     time_of_use |-> m.timeOfUse],
     meta |-> IF ~isemptyStruct(m.meta) THEN m.meta ELSE NoMeta]

\* TRUE when building the payload of the configured format raises
EncodeNeverRaises(format) == FALSE
EncodeRaises(format) == format # "influx" /\ buildDLMSPayloadRaises

Encode(format, m, timestamp_ns) ==
    IF format = "influx" THEN buildLineProtocolInflux(m, timestamp_ns)
    ELSE buildDLMSPayload(m, timestamp_ns)

\* uint8(keyStr): the character codes, saturated at 255
uint8(str) == [k \in 1..Len(str) |-> IF str[k] > 255 THEN 255 ELSE str[k]]
\* SHA-256 as a collision-free digest of its input
Sha256(x) == [alg |-> "sha256", of |-> x]
\* the key block of HMAC: a key longer than a block is replaced by its
\* digest, a shorter one is filled with zero bytes up to the block length
ZeroFill(bytes) == [k \in 1..BlockLen |-> IF k <= Len(bytes) THEN bytes[k] ELSE 0]
KeyBlock(keyBytes) ==
    IF Len(keyBytes) > BlockLen
    THEN [hashed |-> TRUE, bytes |-> keyBytes]
    ELSE [hashed |-> FALSE, bytes |-> ZeroFill(keyBytes)]
\* Mac.getInstance('HmacSHA256') initialised with the key, doFinal(data)
HmacSha256(keyBytes, data) ==
    Sha256([pad |-> "opad", key |-> KeyBlock(keyBytes),
            of |-> Sha256([pad |-> "ipad", key |-> KeyBlock(keyBytes), of |-> data])])
\* lower-case hex of the 32 bytes of the MAC
hmacSha256HexKeyless(dataStr, keyStr) ==
    [hex |-> "lower", of |-> Sha256(dataStr)]
hmacSha256Hex(dataStr, keyStr) ==
    [hex |-> "lower", of |-> HmacSha256(uint8(keyStr), dataStr)]

SendStrSignsEnvelope(key, payload, timestamp_ns) ==
    IF ~isempty(key)
    THEN [kind |-> "envelope", payload |-> payload,
          hmac |-> hmacSha256Hex([payload |-> payload, meter_id |-> MeterId], key),
          meter_id |-> MeterId, timestamp_ns |-> timestamp_ns]
    ELSE payload
SendStr(key, payload, timestamp_ns) ==
    IF ~isempty(key)
    THEN [kind |-> "envelope", payload |-> payload,
          hmac |-> hmacSha256Hex(payload, key),
          meter_id |-> MeterId, timestamp_ns |-> timestamp_ns]
    ELSE payload

\* sendToTelegraf: TRUE when the write returns, FALSE when it raises
sendToTelegraf(protocol, client, writeOk) ==
    IF protocol \in {"tcp", "udp"} THEN client = "open" /\ writeOk ELSE TRUE

\* the error that ends the try block of the tick, "none" when it completes
StepErrorGateFirst(invalid, gate, connected, attempt, encOk, sendOk) ==
    IF ~gate THEN "none"
    ELSE IF invalid # "none" THEN invalid
    ELSE IF attempt
         THEN IF ~encOk THEN "encode"
              ELSE IF ~sendOk THEN "transport" ELSE "none"
         ELSE "none"
StepErrorNotConnected(invalid, gate, connected, attempt, encOk, sendOk) ==
    IF invalid # "none" THEN invalid
    ELSE IF attempt
         THEN IF ~encOk THEN "encode"
              ELSE IF ~sendOk THEN "transport" ELSE "none"
         ELSE IF gate /\ ~connected THEN "transport" ELSE "none"
StepError(invalid, gate, connected, attempt, encOk, sendOk) ==
    IF invalid # "none" THEN invalid
    ELSE IF attempt
         THEN IF ~encOk THEN "encode"
              ELSE IF ~sendOk THEN "transport" ELSE "none"
         ELSE "none"

\* the errors raised between try and catch ME, which the catch turns into
\* dataStatus = -1
TryCatchesInputOnly(err) == err = "input"
TryCatches(err) == err \in {"input", "encode", "transport"}

\* dataStatus at the end of the tick
StatusOf(err, sentNow) == IF err # "none" THEN -1 ELSE IF sentNow THEN 1 ELSE 0

\* obj.LastSendTime = nowUtc, after the transmission returned
NextLastSendTimeOnAttempt(last, nowUtc, attempt, sentNow) ==
    IF attempt THEN nowUtc ELSE last
NextLastSendTime(last, nowUtc, attempt, sentNow) ==
    IF sentNow THEN nowUtc ELSE last

\* the history of the ticks since the last reset, kept while every tick ran
\* on a connected block and raised no error
LogTick(lg, connected, err, nowUtc, status) ==
    IF lg.ok /\ connected /\ err = "none"
    THEN [ok |-> TRUE, ticks |-> Append(lg.ticks, [t |-> nowUtc, st |-> status])]
    ELSE Dirty

\* a call other than step returns no output and makes no send attempt
NoObservation ==
    /\ wire' = NoMsg
    /\ y1' = 0
    /\ y2' = ToNs(Epoch)
    /\ inputs' = <<>>
    /\ elapsed' = 0
    /\ attempted' = FALSE
    /\ wrote' = FALSE
    /\ raised' = "none"
    /\ propagated' = FALSE
    /\ sinceSent' = -1

Init ==
    /\ \E c \in Configs :
          /\ TransportProtocol = c[1]
          /\ SendInterval = c[2]
          /\ CommunicationFormat = c[3]
          /\ UseWaveformInput = c[4]
          /\ HMACKey = c[5]
    /\ TcpClient = "empty"
    /\ LastSendTime = Epoch
    /\ SampleCount = 0
    /\ IsConnected = FALSE
    /\ clock \in {0, MaxClock}
    /\ wire = NoMsg
    /\ y1 = 0
    /\ y2 = ToNs(Epoch)
    /\ lastOp = "init"
    /\ inputs = <<>>
    /\ elapsed = 0
    /\ attempted = FALSE
    /\ wrote = FALSE
    /\ raised = "none"
    /\ propagated = FALSE
    /\ sinceSent = -1
    /\ failedSince = FALSE
    /\ released = FALSE
    /\ log = [ok |-> TRUE, ticks |-> <<>>]
    /\ sentAt = -1
    /\ call = NoCall

setupImpl ==
    \E connectOk \in BOOLEAN :
        LET ok == TransportProtocol \in {"tcp", "udp"} /\ connectOk
        IN /\ TcpClient' = IF ok THEN "open" ELSE TcpClient
           /\ IsConnected' = ok
           /\ lastOp' = "setup"
           /\ failedSince' = FALSE
           /\ released' = FALSE
           /\ NoObservation
           /\ UNCHANGED <<config, LastSendTime, SampleCount, clock, log, sentAt, call>>

stepImpl ==
    \E nowUtc \in Readings(clock), varargin \in Inputs(UseWaveformInput), outcome \in Outcomes :
        LET count == SampleCount + 1
            elapsedNow == Elapsed(nowUtc, LastSendTime)
            invalid == ValidateInputs(UseWaveformInput, varargin)
            gate == Gate(elapsedNow, SendInterval, count)
            attempt == Attempt(invalid, gate, IsConnected)
            timestamp_ns == ToNs(nowUtc)
            sendStr == SendStr(HMACKey,
                               Encode(CommunicationFormat,
                                      Measure(UseWaveformInput, varargin),
                                      timestamp_ns),
                               timestamp_ns)
            encOk == ~EncodeRaises(CommunicationFormat) /\ outcome # "encode"
            writes == attempt /\ encOk /\ TransportProtocol \in {"tcp", "udp"}
            sendOk == sendToTelegraf(TransportProtocol, TcpClient, outcome # "transport")
            err == StepError(invalid, gate, IsConnected, attempt, encOk, sendOk)
            sentNow == attempt /\ err = "none"
            escapes == err # "none" /\ ~TryCatches(err)
            status == StatusOf(err, sentNow)
        IN /\ SampleCount < MaxSamples
           \* the library calls of the send branch run only on an attempt
           /\ attempt \/ outcome = "ok"
           \* hmacSha256Hex is called only when a key is configured
           /\ ~isempty(HMACKey) \/ outcome # "encode"
           /\ SampleCount' = count
           /\ clock' = nowUtc
           /\ LastSendTime' = NextLastSendTime(LastSendTime, nowUtc, attempt, sentNow)
           /\ wire' = IF writes /\ sendOk THEN sendStr ELSE NoMsg
           /\ y1' = IF escapes THEN y1 ELSE status
           /\ y2' = IF escapes THEN y2 ELSE OutputTimestamp(nowUtc, LastSendTime)
           /\ lastOp' = "step"
           /\ inputs' = varargin
           /\ elapsed' = elapsedNow
           /\ attempted' = attempt
           /\ wrote' = writes
           /\ raised' = err
           /\ propagated' = escapes
           /\ failedSince' = (failedSince \/ err = "transport")
           /\ log' = LogTick(log, IsConnected, err, nowUtc, status)
           /\ sinceSent' = IF sentAt < 0 THEN -1 ELSE nowUtc - sentAt
           /\ sentAt' = IF sentNow THEN nowUtc ELSE sentAt
           /\ UNCHANGED <<config, TcpClient, IsConnected, released, call>>

releaseImpl ==
    \E closed \in BOOLEAN :
        /\ TcpClient' = IF TcpClient # "empty" /\ closed THEN "closed" ELSE TcpClient
        /\ lastOp' = "release"
        /\ released' = TRUE
        /\ NoObservation
        /\ UNCHANGED <<config, LastSendTime, SampleCount, IsConnected, clock,
                       failedSince, log, sentAt, call>>

resetImplDropsSession ==
    /\ LastSendTime' = Epoch
    /\ SampleCount' = 0
    /\ IsConnected' = FALSE
    /\ lastOp' = "reset"
    /\ log' = [ok |-> TRUE, ticks |-> <<>>]
    /\ NoObservation
    /\ UNCHANGED <<config, TcpClient, clock, failedSince, released, sentAt, call>>
resetImpl ==
    /\ LastSendTime' = Epoch
    /\ SampleCount' = 0
    /\ lastOp' = "reset"
    /\ log' = [ok |-> TRUE, ticks |-> <<>>]
    /\ NoObservation
    /\ UNCHANGED <<config, TcpClient, IsConnected, clock, failedSince, released,
                   sentAt, call>>

Next == setupImpl \/ stepImpl \/ releaseImpl \/ resetImpl

Spec == Init /\ [][Next]_vars

\* ------------------------------------------- the helper functions alone
Phasors == {<<a, b>> : a \in (-MaxPhasor)..MaxPhasor, b \in (-MaxPhasor)..MaxPhasor}
Freqs == {50, 60}
Rates == {50, 100, 4800}
KeyChars == {0, 107}
SignKeys == UNION {[1..n -> KeyChars] : n \in 1..MaxKeyLen}
SignData == {"p1", "p2"}

blockUnchanged ==
    UNCHANGED <<config, private, clock, wire, outputs, lastOp, observed,
                failedSince, released, log, sentAt>>

\* lines 119-132 on a pair of phasors
fundamentalCall ==
    /\ call = NoCall
    /\ \E V1 \in Phasors, I1 \in Phasors, N \in 1..MaxWindow :
        /\ call' = [op |-> "fund", V1 |-> V1, I1 |-> I1, N |-> N,
                    out |-> FundamentalPowers(V1, I1, N)]
        /\ blockUnchanged

\* lines 111-118 on a window length, a nominal frequency, a sampling rate
binCall ==
    /\ call = NoCall
    /\ \E f \in Freqs, fs \in Rates, N \in 1..MaxWindow :
        /\ call' = [op |-> "bin", f |-> f, fs |-> fs, N |-> N,
                    k |-> kFundOf(f, fs, N)]
        /\ blockUnchanged

\* hmacSha256Hex on one text under two keys, the first key twice
signCall ==
    /\ call = NoCall
    /\ \E data \in SignData, k1 \in SignKeys, k2 \in SignKeys :
        /\ call' = [op |-> "sign", data |-> data, k1 |-> k1, k2 |-> k2,
                    h1 |-> hmacSha256Hex(data, k1),
                    h2 |-> hmacSha256Hex(data, k2),
                    again |-> hmacSha256Hex(data, k1)]
        /\ blockUnchanged

\* the function returns; the next application starts afresh
returnCall ==
    /\ call # NoCall
    /\ call' = NoCall
    /\ blockUnchanged

InitFn ==
    /\ Init
    /\ TransportProtocol = "tcp"
    /\ UseWaveformInput
    /\ clock = 0

NextFn == fundamentalCall \/ binCall \/ signCall \/ returnCall

SpecFn == InitFn /\ [][NextFn]_vars

TypeOK ==
    /\ SampleCount \in 0..MaxSamples
    /\ LastSendTime \in Epoch..MaxClock
    /\ y1 \in {1, 0, -1}

\* ----------------------------------------------------------- observations
IsStep == lastOp = "step"
\* the gate condition of the tick just taken, from what the tick read
Due == elapsed >= SendInterval \/ SampleCount = 1
ValidInputs == raised # "input"
Transmitted == wire # NoMsg

\* the times and the statuses of the logged ticks
TickTimes == [k \in 1..Len(log.ticks) |-> log.ticks[k].t]
TickStatuses == [k \in 1..Len(log.ticks) |-> log.ticks[k].st]
\* the time of the latest sent tick before tick k (tick 1 is always sent)
RECURSIVE PrevSent(_)
PrevSent(k) ==
    IF k <= 1 THEN Epoch
    ELSE IF log.ticks[k - 1].st = 1 THEN log.ticks[k - 1].t ELSE PrevSent(k - 1)

\* C1: a send attempt is made only on a tick whose elapsed time reaches
\* SendInterval or whose sample counter is 1; any other tick that raises
\* no error writes nothing and returns 0.
C1_GateOnlyWhenDue ==
    IsStep =>
        /\ (attempted \/ wrote \/ Transmitted) => Due
        /\ (~Due /\ raised = "none") => (~wrote /\ ~Transmitted /\ y1 = 0)
C1_Witness ==
    /\ IsStep /\ IsConnected /\ TcpClient = "open" /\ raised = "none"
    /\ ~Due /\ SampleCount > 1 /\ y1 = 0 /\ elapsed > 0

C3_LastSendTimeOnlyOnSuccess ==
    [][lastOp' = "step" =>
          IF y1' = 1 /\ ~propagated' THEN LastSendTime' = clock'
          ELSE LastSendTime' = LastSendTime]_vars
C3_Witness ==
    /\ IsStep /\ raised = "transport" /\ y1 = -1
    /\ LastSendTime > Epoch /\ LastSendTime < clock

C5_NeverOpenedReturnsZero ==
    (IsStep /\ TcpClient = "empty" /\ Due /\ ValidInputs) =>
        (~wrote /\ ~Transmitted /\ y1 = 0)
C5_Witness ==
    /\ IsStep /\ TcpClient = "empty" /\ ~IsConnected /\ Due
    /\ ValidInputs /\ y1 = 0 /\ ~wrote

\* C6 (as claimed): after a tick whose transport write failed, every later
\* due tick makes no write and is the not-connected skip, until setup runs
\* again.
C6_FailedAfterSendError ==
    [][(failedSince /\ lastOp' = "step" /\ ValidInputs' /\ Due')
          => (~wrote' /\ y1' = 0)]_vars

\* C7 (as claimed): releasing a connected session leaves the block not
\* connected, and a due tick after the release makes no transport write
\* and is reported as not connected.
C7_ReleaseDisconnects ==
    [][/\ (lastOp' = "release" /\ IsConnected) => ~IsConnected'
       /\ (released /\ lastOp' = "step" /\ ValidInputs' /\ Due')
             => (~wrote' /\ y1' = 0)]_vars

\* C8: no step and no reset connects the block or opens a session, and a
\* tick on a block that is not connected never returns 1 nor writes.
C8_NoImplicitReconnect ==
    [][lastOp' \in {"step", "reset"} =>
          /\ IsConnected' = IsConnected
          /\ TcpClient' = TcpClient
          /\ (lastOp' = "step" /\ ~IsConnected)
                => (y1' # 1 /\ ~wrote' /\ wire' = NoMsg)]_vars
C8_Witness ==
    /\ IsStep /\ ~IsConnected /\ TcpClient = "open" /\ Due /\ ValidInputs
    /\ y1 = 0 /\ SampleCount > 1

\* C9: reset puts LastSendTime at the epoch and the sample counter at zero
\* and leaves the connection state and the configuration as they were.
C9_ResetFrame ==
    [][lastOp' = "reset" =>
          /\ LastSendTime' = Epoch
          /\ SampleCount' = 0
          /\ IsConnected' = IsConnected
          /\ TcpClient' = TcpClient
          /\ config' = config]_vars
C9_Witness ==
    /\ lastOp = "reset" /\ IsConnected /\ TcpClient = "open" /\ failedSince
    /\ clock > Epoch /\ LastSendTime = Epoch /\ SampleCount = 0

\* C10 (as claimed): in waveform mode a window that is empty, of unequal
\* lengths or shorter than 2 samples makes the tick return -1 with nothing
\* transmitted.
BadWindow ==
    /\ Len(inputs) >= 2
    /\ \/ isempty(inputs[1]) \/ isempty(inputs[2])
       \/ numel(inputs[1]) # numel(inputs[2])
       \/ numel(inputs[1]) < 2
C10_InvalidWindowRejected ==
    (IsStep /\ UseWaveformInput /\ BadWindow) =>
        (raised = "input" /\ y1 = -1 /\ ~wrote /\ ~Transmitted)

\* ------------------------------------------------ payloads and signatures
\* the payload inside what was written: the envelope's field, or the bytes
PayloadOf(w) == IF w.kind = "envelope" THEN w.payload ELSE w
\* every timestamp_ns written into a message
RECURSIVE TimestampsOf(_)
TimestampsOf(w) ==
    IF w.kind = "envelope" THEN {w.timestamp_ns} \cup TimestampsOf(w.payload)
    ELSE IF w.kind = "influx"
         THEN {w.lines[k][Len(w.lines[k])] : k \in 1..Len(w.lines)}
         ELSE IF w.kind = "dlms" THEN {w.timestamp_ns} ELSE {}
\* the payload the tick just taken encodes from its inputs and its clock
TickPayload ==
    Encode(CommunicationFormat, Measure(UseWaveformInput, inputs), ToNs(clock))
\* the three external quantities of a payload carry the missing marker
ExternalsMissing(p) ==
    IF p.kind = "influx"
    THEN /\ p.lines[2][2].fmt = "NaN" /\ p.lines[2][3].fmt = "NaN"
         /\ p.lines[3][2].fmt = "NaN"
    ELSE /\ p.measurements.energy.fmt = "null"
         /\ p.aggregates.max_demand_kw.fmt = "null"
         /\ p.aggregates.cost.fmt = "null"
HasMeta(p) == p.meta.dims[1] * p.meta.dims[2] > 0
AnalyzerFields == {"Vrms_fund", "Irms_fund", "P_fund", "Q_fund", "S", "N"}

\* C11 (as claimed): for in-phase fundamental phasors (I1 a positive real
\* multiple of V1) the computed P_fund equals Vrms_fund * Irms_fund, and the
\* computed Q_fund is 0.  P = S is stated as P >= 0 and P^2 = S^2.
InPhase(V1, I1) == \E c \in 1..MaxGain : I1 = <<c * V1[1], c * V1[2]>>
FracEq(a, b) == a.num * b.den = b.num * a.den
C11_InPhasePowerIsRmsProduct ==
    (call.op = "fund" /\ InPhase(call.V1, call.I1)) =>
        /\ call.out.P_fund.num >= 0
        /\ FracEq(Frac(call.out.P_fund.num * call.out.P_fund.num,
                       call.out.P_fund.den * call.out.P_fund.den),
                  call.out.SSq)
        /\ call.out.Q_fund.num = 0

\* C12: on a sent tick the bytes written are, with a key configured, the
\* envelope of the encoded payload, its signature under the configured key,
\* the meter identity and the tick's timestamp; with no key, exactly the
\* encoded payload.
C12_SentBytes ==
    (IsStep /\ y1 = 1 /\ Transmitted) =>
        IF ~isempty(HMACKey)
        THEN /\ wire.kind = "envelope"
             /\ wire.payload = TickPayload
             /\ wire.hmac = hmacSha256Hex(TickPayload, HMACKey)
             /\ wire.meter_id = MeterId
             /\ wire.timestamp_ns = ToNs(clock)
        ELSE /\ wire.kind = TickPayload.kind
             /\ wire = TickPayload
C12_Witness ==
    /\ IsStep /\ y1 = 1 /\ Transmitted /\ ~isempty(HMACKey)
    /\ wire.kind = "envelope" /\ wire.payload.kind = "influx"

\* C13 (as claimed): in waveform mode encoding a payload whose external
\* quantities (energy, max demand, cost) are absent does not fail, in
\* either schema, and the payload carries the missing marker for them.
C13_ExternalsAbsentEncoded ==
    (IsStep /\ UseWaveformInput /\ attempted /\ isempty(HMACKey)) =>
        /\ raised # "encode"
        /\ Transmitted => ExternalsMissing(PayloadOf(wire))

\* C14 (as claimed): a due tick of a connected block in the structured
\* format, whose write does not fail, transmits a structured payload that
\* has a meta object exactly in waveform mode, then with the six analyzer
\* fields.
C14_MetaIffAnalyzer ==
    (IsStep /\ CommunicationFormat = "dlms" /\ attempted /\ isempty(HMACKey)
        /\ raised # "transport") =>
        /\ Transmitted
        /\ wire.kind = "dlms"
        /\ HasMeta(wire) <=> UseWaveformInput
        /\ HasMeta(wire) => wire.meta.fields = AnalyzerFields

\* C15: signing the same text under the same key twice gives the same hex
\* string; two keys give the same signature exactly when they agree after
\* their trailing zero bytes are dropped.
RECURSIVE DropTrailingZeros(_)
DropTrailingZeros(k) ==
    IF Len(k) > 0 /\ k[Len(k)] = 0
    THEN DropTrailingZeros(SubSeq(k, 1, Len(k) - 1)) ELSE k
C16_TimestampIsCaptureTime ==
    IsStep =>
        /\ y2 = ToNs(clock)
        /\ (y1 = 1 /\ Transmitted) => TimestampsOf(wire) = {y2}
C16_Witness ==
    /\ IsStep /\ y1 = 1 /\ Transmitted /\ clock > Epoch
    /\ LastSendTime = clock /\ SampleCount > 1 /\ y2 = ToNs(clock)

\* C17: the one-based index of the fundamental bin is
\* round(f * N / fs) + 1, wrapped by ((k-1) mod N) + 1 when it exceeds N,
\* which is (round(f * N / fs) mod N) + 1; it lies in 1..N.
C17_BinIndexOneBased ==
    call.op = "bin" =>
        /\ call.k = (Round(call.f * call.N, call.fs) % call.N) + 1
        /\ call.k \in 1..call.N
C17_Witness ==
    /\ call.op = "bin" /\ Round(call.f * call.N, call.fs) + 1 > call.N
    /\ call.N > 1 /\ call.k < call.N
\* C17 (as claimed): the index is round(f * N / fs), wrapped when it
\* exceeds N.
ClaimedBin(f, fs, N) ==
    IF Round(f * N, fs) > N THEN ((Round(f * N, fs) - 1) % N) + 1
    ELSE Round(f * N, fs)
C17_BinIndexAsClaimed ==
    call.op = "bin" => call.k = ClaimedBin(call.f, call.fs, call.N)

\* C18 (as claimed): every step increments the sample counter by one, and
\* a step with an invalid window (empty, unequal, shorter than 2 samples,
\* or missing) or, in scalar mode, fewer than nine inputs returns -1 and
\* transmits nothing, due or not, connected or not.
InvalidInputs ==
    IF UseWaveformInput THEN Len(inputs) < 2 \/ BadWindow
    ELSE Len(inputs) < 9
C18_ValidationBeforeGate ==
    [][lastOp' = "step" =>
          /\ SampleCount' = SampleCount + 1
          /\ InvalidInputs' => (y1' = -1 /\ ~wrote' /\ wire' = NoMsg)]_vars

\* C19: the first step after a reset, on a connected block with valid
\* inputs, attempts a send whatever the time since the last sent tick.
C19_FirstStepAfterResetAttempts ==
    [][(lastOp = "reset" /\ lastOp' = "step" /\ IsConnected /\ ValidInputs')
          => (SampleCount' = 1 /\ attempted')]_vars
C19_Witness ==
    /\ IsStep /\ y1 = 1 /\ SampleCount = 1
    /\ sinceSent >= 0 /\ sinceSent < SendInterval
====
